---- MODULE Spec2Model ----
(***************************************************************************)
(* Model of the business-process reminder bot (src/main.py, src/db.py).   *)
(*                                                                         *)
(* Time is an integer number of seconds since 00:00 of day 0; the calendar *)
(* date of an instant is instant \div DAY.  Russian text of the program is *)
(* transliterated to ASCII tokens.                                         *)
(***************************************************************************)
EXTENDS Integers, Sequences, FiniteSets, TLC

(* ------------------------------ bounds --------------------------------- *)

\* Number of failures (store errors, failed sends, kills) injected in a run.
MaxFaults == 1

(* ------------------------- program constants --------------------------- *)

\* timedelta(minutes=...) and total_seconds() // 60 : seconds per minute.
MINUTE == 60
\* datetime: seconds per hour (time(int(h), int(m))).
HOUR == 3600
\* datetime: seconds per calendar day (reference.date()).
DAY == 86400

\* REMINDER_MINUTES = [120, 60]
REMINDER_MINUTES_swapped == <<60, 120>>
REMINDER_MINUTES == <<120, 60>>

\* DEFAULT_PROCESSES as seed_default_processes stores them: the rows of the
\* processes table, AUTOINCREMENT ids 1..4 in list order.  deadline_time
\* "HH:MM" is kept as the pair <<HH, MM>> that hhmm.split(":") yields.
DEFAULT_PROCESSES ==
  << [id |-> 1, name |-> "Zapolnit tablicu pokazatelej", owner_name |-> "Kirill",
      periodicity |-> "ezhednevno (konec dnya)", deadline_time |-> <<23, 59>>],
     [id |-> 2, name |-> "Posmotret prosmotry konkurentov", owner_name |-> "Kirill",
      periodicity |-> "ezhednevno (konec dnya)", deadline_time |-> <<23, 59>>],
     [id |-> 3, name |-> "Zapolnit KOPy", owner_name |-> "Ivan",
      periodicity |-> "ezhednevno do 10:30", deadline_time |-> <<10, 30>>],
     [id |-> 4, name |-> "Proverit reklamnye kampanii", owner_name |-> "Ivan",
      periodicity |-> "ezhednevno do 12:00", deadline_time |-> <<12, 0>>] >>

(* ----------------------------- input sets ------------------------------ *)

\* Telegram ids of the people who may write to the bot.
TgIds == {501, 502}

\* Plain (non-command) texts a person may send: two owner names of the seed
\* and one name that owns no process.
PlainTexts == {"Kirill", "Ivan", "Olga"}

\* Instant hh:mm:00 of day d.
At(d, hh, mm) == d * DAY + hh * HOUR + mm * MINUTE

\* The instants at which the clock is read.  Day 0: 09:30 (both slots of
\* the 10:30 process due), 10:30 (its deadline; slot 1 of the 12:00 process
\* due), 21:59, 22:00, 22:59 (the slots of the 23:59 processes) and 23:59
\* (their deadline).  Day 1: 09:30 and 21:59.
Instants ==
  { At(0, 9, 30), At(0, 10, 30), At(0, 21, 59), At(0, 22, 0), At(0, 22, 59),
    At(0, 23, 59), At(1, 9, 30), At(1, 21, 59) }

\* The instants of the runs with two reminder loops.
ConcInstants == { At(0, 9, 30), At(0, 10, 30) }

\* The reminder loops that run against the store.
Engines == {"e1", "e2"}

(* --------------------------- pure functions ---------------------------- *)

\* db.get_processes_for_owner: rows with owner_name = ?, ORDER BY id.
get_processes_for_owner_all(owner_name) == DEFAULT_PROCESSES
get_processes_for_owner(owner_name) ==
  LET Owned(p) == p.owner_name = owner_name
  IN  SelectSeq(DEFAULT_PROCESSES, Owned)

\* main._deadline_datetime(reference, hhmm):
\* datetime.combine(reference.date(), time(int(h), int(m))).
_deadline_datetime(reference, hhmm) ==
  (reference \div DAY) * DAY + hhmm[1] * HOUR + hhmm[2] * MINUTE

\* main.humanize_delta(delta), delta in seconds.  The result is the token
\* list of the f-string.  total_seconds() // 60 is a floor division (a
\* fraction of a second floors the same way), as is \div.
humanize_delta_hour_late(delta) ==
  LET minutes == delta \div MINUTE
  IN  IF minutes < 0
        THEN <<"prosrocheno na", -minutes, "min">>
        ELSE IF minutes <= 60
          THEN <<"cherez", minutes, "min">>
          ELSE <<"cherez", minutes \div 60, "ch", minutes % 60, "min">>
humanize_delta(delta) ==
  LET minutes == delta \div MINUTE
  IN  IF minutes < 0
        THEN <<"prosrocheno na", -minutes, "min">>
        ELSE IF minutes < 60
          THEN <<"cherez", minutes, "min">>
          ELSE <<"cherez", minutes \div 60, "ch", minutes % 60, "min">>

\* The key of a reminder_logs row:
\* UNIQUE(user_id, process_id, deadline_date, reminder_idx).
Identity(user_id, process_id, deadline_date, reminder_idx) ==
  [user_id |-> user_id, process_id |-> process_id,
   deadline_date |-> deadline_date, reminder_idx |-> reminder_idx]

\* The keys of the rows of a reminder_logs table.
keys_of(rows) == { r.key : r \in rows }

\* db.record_reminder_sent: INSERT ... ON CONFLICT(user_id, process_id,
\* deadline_date, reminder_idx) DO NOTHING; the table after the statement
\* (rows are never deleted, so AUTOINCREMENT gives the row count plus one),
\* and cur.rowcount > 0.
record_reminder_sent_log_no_conflict(reminder_logs, key) ==
  reminder_logs \cup {[id |-> Cardinality(reminder_logs) + 1, key |-> key]}
record_reminder_sent_log(reminder_logs, key) ==
  IF key \in keys_of(reminder_logs) THEN reminder_logs
  ELSE reminder_logs \cup {[id |-> Cardinality(reminder_logs) + 1, key |-> key]}

record_reminder_sent_always(reminder_logs, key) == TRUE
record_reminder_sent(reminder_logs, key) == key \notin keys_of(reminder_logs)

\* main.send_message: the POST either succeeds or raises; the except clause
\* logs and swallows the exception.  delivered: the message reached the
\* chat; raised: an exception leaves send_message.
send_message_unguarded(ok) == [delivered |-> ok, raised |-> ~ok]
send_message(ok) == [delivered |-> ok, raised |-> FALSE]

\* reminders_loop, lines 229-232: target_date = now.date() and today's
\* deadline, _deadline_datetime(datetime.combine(target_date, time()), ...).
target_date(now_dt) == now_dt \div DAY

deadline_of(now_dt, p) ==
  _deadline_datetime(target_date(now_dt) * DAY, p.deadline_time)

\* reminders_loop, line 235: "if now >= deadline_dt: continue".
deadline_passed_strict(now_dt, p) == now_dt > deadline_of(now_dt, p)
deadline_passed(now_dt, p) == now_dt >= deadline_of(now_dt, p)

\* reminders_loop, lines 239-240: reminder_time = deadline_dt -
\* timedelta(minutes=minutes_before); "if now >= reminder_time".
reminder_due_strict(now_dt, p, idx) ==
  now_dt > deadline_of(now_dt, p) - REMINDER_MINUTES[idx] * MINUTE
reminder_due(now_dt, p, idx) ==
  now_dt >= deadline_of(now_dt, p) - REMINDER_MINUTES[idx] * MINUTE

\* reminders_loop, lines 228-240: the walk of "for p in processes" and
\* "for idx, minutes_before in enumerate(REMINDER_MINUTES, start=1)" from
\* position (pi, idx) to the next call of record_reminder_sent; <<0, 0>>
\* when both loops run out.
RECURSIVE next_record(_, _, _, _)
next_record(now_dt, processes, pi, idx) ==
  IF pi > Len(processes) THEN <<0, 0>>
  ELSE IF deadline_passed(now_dt, processes[pi])
    THEN next_record(now_dt, processes, pi + 1, 1)
  ELSE IF idx > Len(REMINDER_MINUTES)
    THEN next_record(now_dt, processes, pi + 1, 1)
  ELSE IF reminder_due(now_dt, processes[pi], idx)
    THEN <<pi, idx>>
  ELSE next_record(now_dt, processes, pi, idx + 1)

\* reminders_loop, lines 249-253: the reminder text.
reminder_text(now_dt, p) ==
  [name |-> p.name, deadline_time |-> p.deadline_time,
   periodicity |-> p.periodicity,
   remaining |-> humanize_delta(deadline_of(now_dt, p) - now_dt)]

(* ------------------------------- state --------------------------------- *)

VARIABLES
  users,         \* table users, rows in id order: [id, telegram_id, tg_username, name]
  reminder_logs, \* table reminder_logs: its rows [id, key]; sent_at, a
                 \* timestamp the program never reads, is left out
  clock,         \* the latest instant datetime.now() has returned
  loop,          \* per engine: where reminders_loop stands, [pc, user, p, idx]
  now,           \* per engine: the local "now" of the running tick
  tick_users,    \* per engine: the local "users" (rows read by get_all_users)
  inserted,      \* per engine: the local "inserted"
  sent,          \* history: the reminder messages handed to send_message, each
                 \* with its key and its number n among those of the key
  store_error,   \* history: per engine, << >> or <<where the loop stood when the
                 \* store raised in the current tick>>
  called,        \* history: keys a record_reminder_sent call has returned for
  created,       \* history: per engine, keys the current tick added to reminder_logs
  send_failed,   \* history: per engine, keys whose send failed in the current tick
  faults,        \* history: the number of failures injected so far
  reply,         \* the latest message handle_message handed to send_message
  event,         \* history: << >> or <<the message handle_message ran on last>>
  register_calls,\* history: the register_user calls, [telegram_id, had_row]
  first_check,   \* history: {} or {the first build_check_response call: its
                 \* instant, owner and text, the log and the clock of that moment}
  last_check,    \* history: the same of the latest build_check_response call
  updates,       \* the updates Telegram holds for the bot, in update_id order
  offset,        \* polling_loop: its local "offset", << >> for None
  batch,         \* polling_loop: the updates "for update in ..." has yet to take
  poll,          \* polling_loop: where it stands, "fetch" or "batch"
  handled,       \* history: the handle_message calls of polling_loop, in order:
                 \* [update_id, raised, left: updates of the batch behind it]
  delta,         \* a duration in seconds handed to humanize_delta
  humanized      \* << >> or the text humanize_delta returned for delta

vars == <<users, reminder_logs, clock, loop, now, tick_users, inserted, sent,
          store_error, called, created, send_failed, faults, reply,
          event, register_calls, first_check, last_check,
          updates, offset, batch, poll, handled, delta, humanized>>

engine_vars == <<loop, now, tick_users, inserted, store_error, created, send_failed>>

\* What handle_message reads and writes besides the tables.
chat_history == <<event, register_calls, first_check, last_check>>

\* The state of polling_loop and of Telegram's update queue.
poll_vars == <<updates, offset, batch, poll, handled>>

\* The argument and the result of a humanize_delta call on its own.
pure_vars == <<delta, humanized>>

\* The variables no step of reminders_loop touches.
outside_engine == <<chat_history, poll_vars, pure_vars>>

\* The reminder messages handed to send_message for a key.
sent_for(key) == { m \in sent : m.key = key }

\* The keys in the reminder log.
log_keys == keys_of(reminder_logs)

\* reminders_loop asleep in asyncio.sleep(poll_seconds), line 258.
Asleep == [pc |-> "sleep", user |-> 0, p |-> 0, idx |-> 0]

\* reminders_loop past the try statement of a tick, about to sleep.
TickOver == [pc |-> "over", user |-> 0, p |-> 0, idx |-> 0]

\* The tables, loops and histories at the start of the program.
InitProgram ==
  /\ users = << >>
  /\ reminder_logs = {}
  /\ clock = 0
  /\ loop = [e \in Engines |-> Asleep]
  /\ now = [e \in Engines |-> 0]
  /\ tick_users = [e \in Engines |-> << >>]
  /\ inserted = [e \in Engines |-> FALSE]
  /\ sent = {}
  /\ store_error = [e \in Engines |-> << >>]
  /\ called = {}
  /\ created = [e \in Engines |-> {}]
  /\ send_failed = [e \in Engines |-> {}]
  /\ faults = 0
  /\ reply = << >>
  /\ event = << >>
  /\ register_calls = {}
  /\ first_check = {}
  /\ last_check = {}
  /\ updates = << >>
  /\ offset = << >>
  /\ batch = << >>
  /\ poll = "fetch"
  /\ handled = << >>

Init ==
  /\ InitProgram
  /\ delta = 0
  /\ humanized = << >>

(* --------------------------- reminders_loop ---------------------------- *)

\* The outcomes the environment may give a store or transport call: TRUE is
\* a failure, possible while the run's failure budget lasts.
Failure == IF faults < MaxFaults THEN BOOLEAN ELSE {FALSE}

count_failure(failed) == faults' = IF failed THEN faults + 1 ELSE faults

\* The processes of the user the loop stands at.
processes_at(e) == get_processes_for_owner(tick_users[e][loop[e].user].name)

\* The key record_reminder_sent is called with at the loop's position:
\* (user["id"], p["id"], target_date.isoformat(), idx).
key_at(e) ==
  Identity(tick_users[e][loop[e].user].id, processes_at(e)[loop[e].p].id,
           target_date(now[e]), loop[e].idx)

\* reminders_loop, lines 255-258: "except Exception" logs, then the loop
\* sleeps and runs again.
after_exception_stopped == [pc |-> "stopped", user |-> 0, p |-> 0, idx |-> 0]
after_exception == TickOver

\* Where the loop stands after get_processes_for_owner returned for user
\* number u, or after slot (pi, idx - 1) of that user is done: at the next
\* record_reminder_sent of this user, else at the next user's
\* get_processes_for_owner, else past the loops after the last user.
resume_first_user_only(now_dt, rows, u, pi, idx) ==
  LET nr == next_record(now_dt, get_processes_for_owner(rows[u].name), pi, idx)
  IN  IF nr # <<0, 0>>
        THEN [pc |-> "record", user |-> u, p |-> nr[1], idx |-> nr[2]]
        ELSE TickOver
resume(now_dt, rows, u, pi, idx) ==
  LET nr == next_record(now_dt, get_processes_for_owner(rows[u].name), pi, idx)
  IN  IF nr # <<0, 0>>
        THEN [pc |-> "record", user |-> u, p |-> nr[1], idx |-> nr[2]]
        ELSE IF u < Len(rows)
          THEN [pc |-> "processes", user |-> u + 1, p |-> 0, idx |-> 0]
          ELSE TickOver

\* Lines 220-222: now = datetime.now(); users = get_all_users(CONN).
\* The clock never runs backwards.  raise_: the store raises.
TickStart(e, instants) ==
  /\ loop[e].pc = "sleep"
  /\ \E t \in instants, raise_ \in Failure :
       /\ t >= clock
       /\ clock' = t
       /\ now' = [now EXCEPT ![e] = t]
       /\ count_failure(raise_)
       /\ store_error' = [store_error EXCEPT ![e] =
             IF raise_ THEN <<loop[e]>> ELSE << >>]
       /\ IF raise_
            THEN /\ loop' = [loop EXCEPT ![e] = after_exception]
                 /\ UNCHANGED tick_users
            ELSE /\ tick_users' = [tick_users EXCEPT ![e] = users]
                 /\ loop' = [loop EXCEPT ![e] =
                       IF users = << >> THEN TickOver
                       ELSE [pc |-> "processes", user |-> 1, p |-> 0, idx |-> 0]]
  /\ UNCHANGED <<users, reminder_logs, inserted, sent, called, created,
                 send_failed, reply>>
  /\ UNCHANGED outside_engine

\* Lines 223-240: processes = get_processes_for_owner(CONN, user["name"]),
\* "if not processes: continue", and the walk to the first due slot.
FetchProcesses(e) ==
  /\ loop[e].pc = "processes"
  /\ \E raise_ \in Failure :
       /\ count_failure(raise_)
       /\ IF raise_
            THEN /\ loop' = [loop EXCEPT ![e] = after_exception]
                 /\ store_error' = [store_error EXCEPT ![e] = <<loop[e]>>]
            ELSE /\ loop' = [loop EXCEPT ![e] =
                       resume(now[e], tick_users[e], loop[e].user, 1, 1)]
                 /\ UNCHANGED store_error
  /\ UNCHANGED <<users, reminder_logs, clock, now, tick_users, inserted, sent,
                 called, created, send_failed, reply>>
  /\ UNCHANGED outside_engine

\* Lines 241-248: inserted = record_reminder_sent(...); "if inserted".
RecordReminder(e) ==
  /\ loop[e].pc = "record"
  /\ \E raise_ \in Failure :
       /\ count_failure(raise_)
       /\ IF raise_
            THEN /\ loop' = [loop EXCEPT ![e] = after_exception]
                 /\ store_error' = [store_error EXCEPT ![e] = <<loop[e]>>]
                 /\ UNCHANGED <<reminder_logs, inserted, called, created>>
            ELSE LET ins == record_reminder_sent(reminder_logs, key_at(e))
                 IN  /\ reminder_logs' =
                          record_reminder_sent_log(reminder_logs, key_at(e))
                     /\ inserted' = [inserted EXCEPT ![e] = ins]
                     /\ called' = called \cup {key_at(e)}
                     /\ created' = [created EXCEPT ![e] =
                           @ \cup keys_of(reminder_logs' \ reminder_logs)]
                     /\ loop' = [loop EXCEPT ![e] =
                           IF ins THEN [loop[e] EXCEPT !.pc = "send"]
                           ELSE resume(now[e], tick_users[e], loop[e].user,
                                       loop[e].p, loop[e].idx + 1)]
                     /\ UNCHANGED store_error
  /\ UNCHANGED <<users, clock, now, tick_users, sent, send_failed, reply>>
  /\ UNCHANGED outside_engine

\* Lines 249-254: the text is built and send_message awaited; then the
\* slot loop goes on.
SendReminder(e) ==
  /\ loop[e].pc = "send"
  /\ \E fail \in Failure :
       LET r == send_message(~fail)
           m == [key |-> key_at(e), n |-> Cardinality(sent_for(key_at(e))) + 1,
                 chat_id |-> tick_users[e][loop[e].user].telegram_id,
                 text |-> reminder_text(now[e], processes_at(e)[loop[e].p]),
                 delivered |-> r.delivered]
       IN  /\ count_failure(fail)
           /\ sent' = sent \cup {m}
           /\ send_failed' = [send_failed EXCEPT ![e] =
                 IF r.delivered THEN @ ELSE @ \cup {key_at(e)}]
           /\ loop' = [loop EXCEPT ![e] =
                 IF r.raised THEN after_exception
                 ELSE resume(now[e], tick_users[e], loop[e].user,
                             loop[e].p, loop[e].idx + 1)]
  /\ UNCHANGED <<users, reminder_logs, clock, now, tick_users, inserted,
                 store_error, called, created, reply>>
  /\ UNCHANGED outside_engine

\* Line 258: await asyncio.sleep(poll_seconds).  The tick's locals are dead
\* from here on (the next tick assigns them before it reads them) and are
\* cleared, as is the tick's history.
Sleep(e) ==
  /\ loop[e].pc = "over"
  /\ loop' = [loop EXCEPT ![e] = Asleep]
  /\ now' = [now EXCEPT ![e] = 0]
  /\ tick_users' = [tick_users EXCEPT ![e] = << >>]
  /\ inserted' = [inserted EXCEPT ![e] = FALSE]
  /\ store_error' = [store_error EXCEPT ![e] = << >>]
  /\ created' = [created EXCEPT ![e] = {}]
  /\ send_failed' = [send_failed EXCEPT ![e] = {}]
  /\ UNCHANGED <<users, reminder_logs, clock, sent, called, faults, reply>>
  /\ UNCHANGED outside_engine

\* The process is killed in the middle of a tick and started again: the
\* loop's locals are lost, the tables stay.  A kill counts as a failure.
Crash(e) ==
  /\ loop[e].pc \notin {"sleep", "stopped"}
  /\ TRUE \in Failure
  /\ count_failure(TRUE)
  /\ loop' = [loop EXCEPT ![e] = Asleep]
  /\ now' = [now EXCEPT ![e] = 0]
  /\ tick_users' = [tick_users EXCEPT ![e] = << >>]
  /\ inserted' = [inserted EXCEPT ![e] = FALSE]
  /\ store_error' = [store_error EXCEPT ![e] = << >>]
  /\ created' = [created EXCEPT ![e] = {}]
  /\ send_failed' = [send_failed EXCEPT ![e] = {}]
  /\ UNCHANGED <<users, reminder_logs, clock, sent, called, reply>>
  /\ UNCHANGED outside_engine

(* --------------------------- handle_message ---------------------------- *)

\* A text is the list of the parts of the stripped line:
\* text.strip().split(maxsplit=1).  << >> is the empty text (also a message
\* without text), <<word>> a line without an argument, <<word, raw>> a
\* command and the rest of its line.  A plain line is one part, whatever
\* blanks it holds.
\* The prefixes, among those handle_message asks for, of the words used.
prefixes_of(word) ==
  CASE word = "/start"   -> {"/", "/start"}
    [] word = "/my"      -> {"/", "/my"}
    [] word = "/mystats" -> {"/", "/my"}
    [] word = "/check"   -> {"/", "/check"}
    [] word = "/help"    -> {"/"}
    [] OTHER             -> {}

\* str.startswith.
startswith(text, prefix) ==
  /\ text # << >>
  /\ prefix \in prefixes_of(text[1])

\* An Optional value is a sequence: << >> for None, <<v>> for v.
None == << >>

\* main.parse_check_datetime: no second part, or a second part that
\* strptime("%d-%m-%Y %H:%M") rejects (kept as << >>), gives None; a
\* well-formed one, kept as <<day, hh, mm>>, gives that instant.
parse_check_datetime(text) ==
  IF Len(text) < 2 THEN None
  ELSE IF text[2] = << >> THEN None
  ELSE <<text[2][1] * DAY + text[2][2] * HOUR + text[2][3] * MINUTE>>

\* db.get_user: the row with that telegram_id, or None.
get_user_none(rows, telegram_id) == None
get_user(rows, telegram_id) ==
  IF \E i \in 1 .. Len(rows) : rows[i].telegram_id = telegram_id
    THEN <<rows[CHOOSE i \in 1 .. Len(rows) : rows[i].telegram_id = telegram_id]>>
    ELSE None

\* db.register_user: INSERT ... ON CONFLICT(telegram_id) DO UPDATE SET name,
\* tg_username.  Rows are never deleted, so AUTOINCREMENT gives Len + 1.
register_user(rows, telegram_id, name, username) ==
  IF \A i \in 1 .. Len(rows) : rows[i].telegram_id # telegram_id
    THEN Append(rows, [id |-> Len(rows) + 1, telegram_id |-> telegram_id,
                       tg_username |-> username, name |-> name])
    ELSE [i \in 1 .. Len(rows) |->
            IF rows[i].telegram_id = telegram_id
              THEN [rows[i] EXCEPT !.name = name, !.tg_username = username]
              ELSE rows[i]]

\* main.format_process_list.
format_process_list(owner_name) ==
  LET processes == get_processes_for_owner(owner_name)
  IN  IF processes = << >> THEN <<"Za vami poka ne zakrepleny processy.">>
      ELSE <<"Vashi processy", owner_name, "Napominaniya", REMINDER_MINUTES>>
           \o [i \in 1 .. Len(processes) |->
                 <<processes[i].name, processes[i].periodicity,
                   processes[i].deadline_time>>]

\* main.build_check_response: per process, today's deadline relative to
\* the given instant and the status line.  The not-passed branch strips
\* "cherez " from humanize_delta's text (str.replace).
build_check_response_wall_clock(now_dt, owner_name) ==
  LET processes == get_processes_for_owner(owner_name)
      status(p) ==
        LET d == _deadline_datetime(clock, p.deadline_time) - clock
        IN  IF d >= 0
              THEN <<"uspevaete, ostalos">> \o Tail(humanize_delta(d))
              ELSE <<"dedlajn proshel, prosrocheno na">> \o humanize_delta(d)
  IN  IF processes = << >> THEN <<"Net processov dlya rascheta.">>
      ELSE <<"Proverka na", now_dt>>
           \o [i \in 1 .. Len(processes) |->
                 <<processes[i].name, processes[i].deadline_time,
                   status(processes[i])>>]
build_check_response(now_dt, owner_name) ==
  LET processes == get_processes_for_owner(owner_name)
      status(p) ==
        LET d == _deadline_datetime(now_dt, p.deadline_time) - now_dt
        IN  IF d >= 0
              THEN <<"uspevaete, ostalos">> \o Tail(humanize_delta(d))
              ELSE <<"dedlajn proshel, prosrocheno na">> \o humanize_delta(d)
  IN  IF processes = << >> THEN <<"Net processov dlya rascheta.">>
      ELSE <<"Proverka na", now_dt>>
           \o [i \in 1 .. Len(processes) |->
                 <<processes[i].name, processes[i].deadline_time,
                   status(processes[i])>>]

\* main.build_help.
build_help(is_registered) ==
  <<"Komandy:", "/start", "/my", "/check DD-MM-YYYY HH:MM">>
  \o (IF is_registered THEN << >>
      ELSE <<"Snachala otpravte vashe imya dlya registracii.">>)

\* main.handle_message for a message from telegram user tg in the private
\* chat with the same id: what it does to the tables and what it hands to
\* send_message.  No await stands between get_user and register_user, so
\* the handler is one step.
HandleMessage(tg, username, text) ==
  LET registered == get_user(users, tg)
      answer(t) == reply' = [chat_id |-> tg, text |-> t]
      no_write == UNCHANGED <<users, register_calls>>
      no_check == UNCHANGED <<first_check, last_check>>
  IN  /\ event' = <<[tg |-> tg, text |-> text]>>
      /\ IF startswith(text, "/start")
           THEN answer(<<"Privet! Napishi svoe imya">>) /\ no_write
                /\ no_check
         ELSE IF registered = None /\ text # << >> /\ ~startswith(text, "/")
           THEN /\ users' = register_user(users, tg, text[1], username)
                /\ register_calls' = register_calls \cup
                     {[telegram_id |-> tg,
                       had_row |-> \E i \in DOMAIN users :
                                      users[i].telegram_id = tg]}
                /\ answer(<<"Zapisal", text[1]>>)
                /\ no_check
         ELSE IF registered = None
           THEN answer(build_help(FALSE)) /\ no_write /\ no_check
         ELSE IF startswith(text, "/my")
           THEN answer(format_process_list(registered[1].name)) /\ no_write
                /\ no_check
         ELSE IF startswith(text, "/check")
           THEN /\ IF parse_check_datetime(text) = None
                     THEN /\ answer(<<"Ispolzujte format: /check 15-12-2025 09:00">>)
                          /\ no_check
                     ELSE LET t == parse_check_datetime(text)[1]
                              r == build_check_response(t, registered[1].name)
                              c == [instant |-> t,
                                    owner |-> registered[1].name,
                                    text |-> r, log |-> reminder_logs,
                                    clock |-> clock]
                          IN  /\ answer(r)
                              /\ first_check' =
                                   IF first_check # {} THEN first_check ELSE {c}
                              /\ last_check' = {c}
                /\ no_write
         ELSE answer(build_help(TRUE)) /\ no_write /\ no_check

\* What a handle_message call leaves alone.
outside_chat ==
  <<reminder_logs, clock, sent, called, engine_vars, poll_vars, pure_vars>>

(* --------------------------- specifications ---------------------------- *)

\* Handles a person may have.
Usernames == {"nick"}

\* A person who is not registered yet sends a name.
SendsName(people, names) ==
  \E tg \in people, u \in Usernames, n \in names :
    /\ get_user(users, tg) = None
    /\ HandleMessage(tg, u, <<n>>)
    /\ UNCHANGED <<outside_chat, faults>>

\* The texts people send: no text, the commands (with "/mystats", a word
\* that starts with "/my", and "/help", a command the bot does not know),
\* /check without argument, with an argument strptime rejects, at 10:30 (a
\* deadline) and at 11:00 of day 0, and three names.
ChatTexts ==
  { << >>, <<"/start">>, <<"/my">>, <<"/mystats">>, <<"/help">>,
    <<"/check">>, <<"/check", << >> >>, <<"/check", <<0, 10, 30>> >>,
    <<"/check", <<0, 11, 0>> >>, <<"Ivan">>, <<"Kirill">>, <<"Olga">> }

\* The handles of the person who sends every kind of message: people may
\* change their handle between two messages.
ChatUsernames == {"nick", "nick2"}

\* A person sends a message and handle_message runs on it.
Receives(people, texts) ==
  \E tg \in people, u \in ChatUsernames, text \in texts :
    /\ HandleMessage(tg, u, text)
    /\ UNCHANGED <<outside_chat, faults>>

\* The instant of the ticks in the runs with every kind of chat message.
ChatInstants == { At(0, 9, 30) }

\* The person who writes to the bot in those runs.
Chatter == {501}

\* The program with a person sending any of the texts between the steps of
\* reminders_loop.
NextChat ==
  \/ TickStart("e1", ChatInstants)
  \/ FetchProcesses("e1")
  \/ RecordReminder("e1")
  \/ SendReminder("e1")
  \/ Sleep("e1")
  \/ Receives(Chatter, ChatTexts)

ChatSpec == Init /\ [][NextChat]_vars

\* The names sent in the runs with two reminder loops.
ConcTexts == {"Ivan"}

\* The program as it runs: one reminders_loop, and people registering.
Next ==
  \/ TickStart("e1", Instants)
  \/ FetchProcesses("e1")
  \/ RecordReminder("e1")
  \/ SendReminder("e1")
  \/ Sleep("e1")
  \/ SendsName(TgIds, PlainTexts)

Spec == Init /\ [][Next]_vars

\* Two reminder loops on one store (overlapping ticks), each of which may
\* be killed in the middle of a tick and started again.
NextConc ==
  \/ \E e \in Engines : TickStart(e, ConcInstants)
  \/ \E e \in Engines : FetchProcesses(e)
  \/ \E e \in Engines : RecordReminder(e)
  \/ \E e \in Engines : SendReminder(e)
  \/ \E e \in Engines : Sleep(e)
  \/ \E e \in Engines : Crash(e)
  \/ SendsName(TgIds, ConcTexts)

ConcSpec == Init /\ [][NextConc]_vars

\* The instants of the runs checked for progress.
LiveInstants == { At(0, 9, 30), At(0, 21, 59), At(0, 22, 59), At(1, 21, 59) }

\* The steps of the one reminders_loop.
Tick(e) ==
  \/ TickStart(e, LiveInstants)
  \/ FetchProcesses(e)
  \/ RecordReminder(e)
  \/ SendReminder(e)
  \/ Sleep(e)

\* The program with its scheduling: the event loop resumes reminders_loop
\* whenever it can run (asyncio.sleep ends after poll_seconds, a store call
\* returns or raises, the POST of send_message ends within its timeout).
NextLive == Tick("e1") \/ SendsName(TgIds, PlainTexts)

FairSpec == Init /\ [][NextLive]_vars /\ WF_vars(Tick("e1"))

(* ----------------------------- polling_loop ---------------------------- *)

\* The number of updates that arrive in a run.
MaxUpdates == 3

\* What an update may carry: nothing handle_message is called for (<< >>:
\* neither "message" nor "edited_message"), or a message.
PollMessages ==
  { << >> } \cup { <<[tg |-> 501, text |-> text]>> : text \in {<<"Ivan">>, <<"/my">>} }

\* Telegram receives an update for the bot and numbers it.
Arrive ==
  /\ Len(updates) < MaxUpdates
  /\ \E m \in PollMessages :
       updates' = Append(updates, [update_id |-> Len(updates) + 1, message |-> m])
  /\ UNCHANGED <<offset, batch, poll, handled>>
  /\ UNCHANGED <<users, reminder_logs, clock, sent, called, faults, reply,
                 engine_vars, chat_history, pure_vars>>

\* What getUpdates returns for an offset: the updates numbered offset or
\* higher (all those not confirmed yet if the offset is None), in order.
getUpdates(queue, cursor) ==
  LET Pending(u) == cursor = << >> \/ u.update_id >= cursor[1]
  IN  SelectSeq(queue, Pending)

\* Line 202: offset = update["update_id"] + 1.
next_offset_same(update) == <<update.update_id>>
next_offset(update) == <<update.update_id + 1>>

\* Lines 191-199 and 208-210: the long poll.  It raises, or answers with
\* "ok" false (logged, a short sleep, the next round), or returns the
\* pending updates, over which the for loop starts.
GetUpdates ==
  /\ poll = "fetch"
  /\ \E fail \in Failure :
       /\ count_failure(fail)
       /\ IF fail
            THEN UNCHANGED <<batch, poll>>
            ELSE /\ batch' = getUpdates(updates, offset)
                 /\ poll' = IF batch' = << >> THEN "fetch" ELSE "batch"
  /\ UNCHANGED <<updates, offset, handled>>
  /\ UNCHANGED <<users, reminder_logs, clock, sent, called, reply,
                 engine_vars, chat_history, pure_vars>>

\* Lines 201-210: one round of "for update in ...": the cursor moves past
\* the update; an update without a message is skipped; else handle_message
\* is awaited.  If the store raises in it (get_user, register_user) nothing
\* is written, "except Exception" is reached and after a sleep the loop
\* polls again: the rest of the batch is dropped.
HandleUpdate ==
  /\ poll = "batch"
  /\ LET update == Head(batch)
         rest == Tail(batch)
         call(raised) == Append(handled, [update_id |-> update.update_id,
                                          raised |-> raised, left |-> Len(rest)])
     IN  /\ offset' = next_offset(update)
         /\ IF update.message = << >>
              THEN /\ batch' = rest
                   /\ poll' = IF rest = << >> THEN "fetch" ELSE "batch"
                   /\ UNCHANGED <<handled, faults, users, reply, chat_history>>
              ELSE \E raise_ \in Failure :
                     /\ count_failure(raise_)
                     /\ handled' = call(raise_)
                     /\ IF raise_
                          THEN /\ batch' = << >>
                               /\ poll' = "fetch"
                               /\ UNCHANGED <<users, reply, chat_history>>
                          ELSE /\ batch' = rest
                               /\ poll' = IF rest = << >> THEN "fetch" ELSE "batch"
                               /\ HandleMessage(update.message[1].tg, "nick",
                                                update.message[1].text)
  /\ UNCHANGED updates
  /\ UNCHANGED <<reminder_logs, clock, sent, called, engine_vars, pure_vars>>

\* polling_loop and Telegram's queue.  The event loop resumes polling_loop
\* when the long poll ends (the client's timeout bounds it) and when
\* handle_message returns or raises.
NextPoll == Arrive \/ GetUpdates \/ HandleUpdate

PollSpec == Init /\ [][NextPoll]_vars /\ WF_vars(GetUpdates \/ HandleUpdate)

(* -------------------------- humanize_delta ----------------------------- *)

\* The largest duration, in seconds, handed to humanize_delta on its own.
MaxSeconds == 7320

\* The durations: from MaxSeconds overdue to MaxSeconds ahead, second by
\* second.
Durations == (0 - MaxSeconds) .. MaxSeconds

\* humanize_delta called on a duration.
Humanize ==
  /\ humanized = << >>
  /\ humanized' = humanize_delta(delta)
  /\ UNCHANGED <<users, reminder_logs, clock, sent, called, faults, reply,
                 engine_vars, chat_history, poll_vars, delta>>

HumanizeInit ==
  /\ InitProgram
  /\ delta \in Durations
  /\ humanized = << >>

HumanizeSpec == HumanizeInit /\ [][Humanize]_vars

(* ------------------------- terms of the claims ------------------------- *)

\* The deadline instant of process number pid on calendar date d.
DeadlineOn(pid, d) ==
  d * DAY + DEFAULT_PROCESSES[pid].deadline_time[1] * HOUR
          + DEFAULT_PROCESSES[pid].deadline_time[2] * MINUTE

\* The offsets of slots 1 and 2 as the specification gives them: [120, 60].
SlotOffset(k) == IF k = 1 THEN 120 * MINUTE ELSE 60 * MINUTE

\* Instant t lies in the window of slot k of process pid: D - o_k <= t < D.
InWindow(t, pid, k) ==
  /\ DeadlineOn(pid, t \div DAY) - SlotOffset(k) <= t
  /\ t < DeadlineOn(pid, t \div DAY)

\* The keys whose window holds the tick time of engine e, for the users the
\* tick has read.
WindowKeys(e) ==
  { Identity(tick_users[e][x[1]].id, x[2], now[e] \div DAY, x[3]) :
      x \in { y \in (DOMAIN tick_users[e]) \X (DOMAIN DEFAULT_PROCESSES) \X {1, 2} :
                /\ DEFAULT_PROCESSES[y[2]].owner_name = tick_users[e][y[1]].name
                /\ InWindow(now[e], y[2], y[3]) } }

\* Engine e takes a step.
Acts(e) == loop'[e] # loop[e]

\* In this step a record_reminder_sent call of engine e returns.
RecordReturns(e) == loop[e].pc = "record" /\ Acts(e) /\ called' = called \cup {key_at(e)}
                    /\ store_error'[e] = << >> /\ loop'[e].pc # "sleep"

\* The row of the person with telegram id tg is registered under name n.
RegisteredAs(tg, n) ==
  \E i \in DOMAIN users : users[i].telegram_id = tg /\ users[i].name = n

\* The id of the registered person with telegram id tg.
UserId(tg) == CHOOSE i \in DOMAIN users : users[i].telegram_id = tg

(* ------------------------------- claims -------------------------------- *)

\* C1: however often and whenever the reminder loop ticks, at most one
\* reminder message is handed to send_message per (user, process, date,
\* slot), and every record_reminder_sent call for a key after the first
\* call for that key returns False.
C1_AtMostOnce ==
  /\ [](\A m \in sent : m.n = 1)
  /\ [][\A e \in Engines :
          (RecordReturns(e) /\ key_at(e) \in called) => inserted'[e] = FALSE]_vars

\* C1 witness: the tick at 22:00 of day 0 has called record_reminder_sent
\* again for slot 1 of process 1, got False and moved on to process 2; the
\* only message of that key is the one the 21:59 tick sent.
C1_Witness ==
  /\ loop["e1"].pc = "record" /\ loop["e1"].p = 2 /\ loop["e1"].user = 1
  /\ now["e1"] = At(0, 22, 0)
  /\ inserted["e1"] = FALSE
  /\ Identity(1, 1, 0, 1) \in called
  /\ \E m \in sent : /\ m.key = Identity(1, 1, 0, 1)
                     /\ m.text.remaining = <<"cherez", 2, "ch", 0, "min">>
  /\ Cardinality(sent_for(Identity(1, 1, 0, 1))) = 1

\* C2: a reminder message is handed to send_message only for a key whose
\* record the same tick has newly created, so no message ever exists
\* without its record ("delivered but not recorded" is unreachable).
C2_SendOnlyAfterInsert ==
  /\ [](\A m \in sent : m.key \in log_keys)
  /\ [][\A m \in sent' \ sent :
          \E e \in Engines : Acts(e) /\ m.key \in created[e]
                              /\ m.key \in log_keys]_vars

\* C2 witness: "recorded but not delivered": a loop was killed between
\* record_reminder_sent and send_message; the record is in the log, no
\* message was ever handed over for it and both loops are asleep.
C2_Witness ==
  /\ \A e \in Engines : loop[e].pc = "sleep"
  /\ \E k \in log_keys : sent_for(k) = {}
  /\ \E m \in sent : m.delivered

\* C3: with two reminder loops ticking against the same store in any
\* interleaving, each of which may be killed at any point of a tick and
\* started again, at most one message is handed to send_message per key.
C3_AtMostOnceOverlapping ==
  \A k \in log_keys \cup { m.key : m \in sent } :
    Cardinality(sent_for(k)) <= 1

\* C3 witness: two ticks overlap at the same instant: e1 stands between
\* record_reminder_sent and send_message for a key, and e2 has already
\* gone past that key of the same user in its own tick.
C3_Witness ==
  /\ loop["e1"].pc = "send"
  /\ loop["e2"].pc \in {"record", "send"}
  /\ now["e2"] = now["e1"]
  /\ loop["e2"].user = loop["e1"].user
  /\ tick_users["e2"][loop["e2"].user].id = tick_users["e1"][loop["e1"].user].id
  /\ \/ loop["e2"].p > loop["e1"].p
     \/ loop["e2"].p = loop["e1"].p /\ loop["e2"].idx > loop["e1"].idx
  /\ sent_for(key_at("e1")) = {}

\* C4: a tick whose time is at or after today's deadline of a process, the
\* deadline instant itself included, adds no record to the log and hands no
\* message to send_message for that process.
C4_NothingAtOrAfterDeadline ==
  [][\A e \in Engines, pid \in DOMAIN DEFAULT_PROCESSES :
       (Acts(e) /\ now[e] >= DeadlineOn(pid, now[e] \div DAY)) =>
         /\ \A k \in log_keys' \ log_keys : k.process_id # pid
         /\ \A m \in sent' \ sent : m.key.process_id # pid]_vars

\* C4 witness: the tick at exactly 10:30 has gone past the 10:30 process
\* (number 3) of Ivan without a record and stands at the 12:00 process.
C4_Witness ==
  /\ now["e1"] = At(0, 10, 30)
  /\ loop["e1"].pc = "record"
  /\ processes_at("e1")[loop["e1"].p].id = 4
  /\ \A k \in log_keys : k.process_id # 3

\* C5: in a tick that meets no store error, every slot whose window
\* D - o_k <= t < D holds the tick time t has, for every user the tick has
\* read and every process the user owns, its record and exactly one message
\* when the tick is over; and a message is only ever handed to send_message
\* by a tick on the key's date whose time lies in the key's window.  So the
\* first such tick sends the message and no other tick does, whatever the
\* log holds for earlier dates.
C5_FirstTickInWindowSends ==
  /\ [](\A e \in Engines :
          (loop[e].pc = "over" /\ store_error[e] = << >>) =>
            \A k \in WindowKeys(e) :
              k \in log_keys /\ Cardinality(sent_for(k)) = 1)
  /\ [][\A m \in sent' \ sent :
          \E e \in Engines :
            /\ Acts(e)
            /\ m.n = 1
            /\ m.key.deadline_date = now[e] \div DAY
            /\ InWindow(now[e], m.key.process_id, m.key.reminder_idx)]_vars

\* C5 witness (deadline 23:59, offsets [120, 60], user 1 owning process 1):
\* the slot-1 message of day 0 went out with two hours left (the 21:59
\* tick), the slot-2 message with one hour left (the 22:59 tick), and on
\* day 1 the slot-1 message went out again at 21:59 although the log holds
\* the record of day 0.
C5_Witness ==
  /\ \E m \in sent_for(Identity(1, 1, 0, 1)) :
       m.text.remaining = <<"cherez", 2, "ch", 0, "min">>
  /\ \E m \in sent_for(Identity(1, 1, 0, 2)) :
       m.text.remaining = <<"cherez", 1, "ch", 0, "min">>
  /\ \E m \in sent_for(Identity(1, 1, 1, 1)) :
       m.text.remaining = <<"cherez", 2, "ch", 0, "min">>
  /\ Identity(1, 1, 0, 1) \in log_keys
  /\ loop["e1"].pc = "over" /\ now["e1"] = At(1, 21, 59)

\* C6: a record with slot index 1 is only ever created by a tick that found
\* now >= deadline - 120 minutes, a record with index 2 only by a tick that
\* found now >= deadline - 60 minutes (so the 60-minute offset is never
\* recorded at index 1), and there is no other index.
C6_IndexMatchesOffset ==
  [][\A k \in log_keys' \ log_keys :
       \E e \in Engines :
         /\ Acts(e)
         /\ k.deadline_date = now[e] \div DAY
         /\ k.reminder_idx \in {1, 2}
         /\ k.reminder_idx = 1 =>
              now[e] >= DeadlineOn(k.process_id, k.deadline_date) - 120 * MINUTE
         /\ k.reminder_idx = 2 =>
              now[e] >= DeadlineOn(k.process_id, k.deadline_date) - 60 * MINUTE]_vars

\* C6 witness: at 21:59, when only the 120-minute offset of the 23:59
\* process is due, the record just created has index 1 and the log holds no
\* record with index 2.
C6_Witness ==
  /\ loop["e1"].pc = "send" /\ loop["e1"].idx = 1
  /\ now["e1"] = At(0, 21, 59)
  /\ key_at("e1") \in log_keys
  /\ \A k \in log_keys : k.reminder_idx = 1

\* C7: a failed send does not abort the tick: when a tick in which a send
\* failed and the store raised nothing is over, every slot that was due in
\* it (for every user it read) has its record and its message.
C7_SendFailureDoesNotAbort ==
  \A e \in Engines :
    (loop[e].pc = "over" /\ send_failed[e] # {} /\ store_error[e] = << >>) =>
      \A k \in WindowKeys(e) : k \in log_keys /\ sent_for(k) # {}

\* C7 witness: in one tick the send for a slot of user 1 failed, and after
\* it a later slot of the same user and a slot of user 2 were recorded and
\* delivered.
C7_Witness ==
  /\ loop["e1"].pc = "over"
  /\ \E k1 \in send_failed["e1"], k2 \in created["e1"], k3 \in created["e1"] :
       /\ k1.user_id = 1 /\ k2.user_id = 1 /\ k3.user_id = 2
       /\ \/ k2.process_id > k1.process_id
          \/ k2.process_id = k1.process_id /\ k2.reminder_idx > k1.reminder_idx
       /\ \E m \in sent_for(k2) : m.delivered
       /\ \E m \in sent_for(k3) : m.delivered

\* C8: whatever a tick's outcome, a store error in the middle of it
\* included, the loop reaches its sleep and starts another tick: under the
\* program's scheduling the loop sleeps infinitely often and ticks start
\* infinitely often.
C8_LoopAlwaysRearms ==
  /\ [](store_error["e1"] # << >> => <>(loop["e1"].pc = "sleep"))
  /\ []<>(loop["e1"].pc = "sleep")
  /\ []<><<TickStart("e1", LiveInstants)>>_vars

\* C8 witness: a tick is over because record_reminder_sent raised after the
\* tick had already recorded a reminder.
C8_Witness ==
  /\ loop["e1"].pc = "over"
  /\ store_error["e1"] # << >>
  /\ store_error["e1"][1].pc = "record"
  /\ created["e1"] # {}

\* Where the loop of engine e stood when the store raised in this tick.
FailedAt(e) == store_error[e][1]

\* Key k belongs to an item that follows, in the order of the tick's loops,
\* the item at which the store raised: a later slot or process of the same
\* user, or a later user.  (User ids and process ids grow with the order.)
FollowsFailure(e, k) ==
  \/ FailedAt(e).pc \in {"processes", "record"}
       /\ k.user_id > tick_users[e][FailedAt(e).user].id
  \/ /\ FailedAt(e).pc = "record"
     /\ k.user_id = tick_users[e][FailedAt(e).user].id
     /\ LET pid == get_processes_for_owner(
                     tick_users[e][FailedAt(e).user].name)[FailedAt(e).p].id
        IN  \/ k.process_id > pid
            \/ k.process_id = pid /\ k.reminder_idx > FailedAt(e).idx

\* C9 as stated: every failure while processing one item, store errors
\* included, is caught at that item's boundary, so when the tick is over the
\* due items that follow the failing one have been processed.
C9_AsStated ==
  \A e \in Engines :
    (loop[e].pc = "over" /\ store_error[e] # << >>) =>
      \A k \in WindowKeys(e) : FollowsFailure(e, k) => k \in log_keys

\* C9 as amended: a failed send is caught at the item's boundary (inside
\* send_message) and every due item of the tick is still recorded and sent;
\* a store error is caught only by the try statement around the whole tick:
\* the items that follow the failing one are not processed in that tick.
C9_OnlySendFailuresAreIsolated ==
  \A e \in Engines :
    loop[e].pc = "over" =>
      /\ store_error[e] = << >> =>
           \A k \in WindowKeys(e) : k \in log_keys /\ sent_for(k) # {}
      /\ store_error[e] # << >> =>
           \A k \in WindowKeys(e) : FollowsFailure(e, k) => k \notin created[e]

\* C9 witness: record_reminder_sent raised at an item of user 1, the tick
\* is over, and a due slot of user 2 was left without its record.
C9_Witness ==
  /\ loop["e1"].pc = "over"
  /\ store_error["e1"] # << >>
  /\ FailedAt("e1").pc = "record" /\ FailedAt("e1").user = 1
  /\ \E k \in WindowKeys("e1") :
       k.user_id = 2 /\ FollowsFailure("e1", k) /\ k \notin log_keys

\* C10: a reminder whose send failed is abandoned: its record stays in the
\* log and no further message is ever handed to send_message for its key.
C10_FailedSendAbandoned ==
  [][\A m \in sent :
       ~m.delivered =>
         /\ m.key \in log_keys /\ m.key \in log_keys'
         /\ { x \in sent' : x.key = m.key } = sent_for(m.key)]_vars

\* C10 witness: the slot-1 send of the 21:59 tick failed; the 22:59 tick of
\* the same day has gone past that slot without sending and stands at the
\* send of slot 2.
C10_Witness ==
  /\ \E m \in sent_for(Identity(1, 1, 0, 1)) :
       ~m.delivered /\ m.text.remaining = <<"cherez", 2, "ch", 0, "min">>
  /\ Cardinality(sent_for(Identity(1, 1, 0, 1))) = 1
  /\ now["e1"] = At(0, 22, 59)
  /\ loop["e1"].pc = "send"
  /\ key_at("e1") = Identity(1, 1, 0, 2)

(* ---------------------- terms of the chat claims ----------------------- *)

\* The person with telegram id tg has no row in users.
Unregistered(tg) == \A i \in DOMAIN users : users[i].telegram_id # tg

\* A text that is a command: its line starts with "/".
IsCommand(text) ==
  text # << >> /\ text[1] \in {"/start", "/my", "/mystats", "/check", "/help"}

\* In this step handle_message runs on the message (tg, text).  Every step
\* of reminders_loop moves loop, so a step that leaves it is a chat step.
HandledNow(tg, text) ==
  /\ loop' = loop
  /\ event' # << >>
  /\ event'[1].tg = tg
  /\ event'[1].text = text

\* The kinds of reply, told by the first part of the text.
IsOnboarding(r) == r.text[1] = "Privet! Napishi svoe imya"
IsHelp(r) == r.text[1] = "Komandy:"
IsProcessList(r) ==
  r.text[1] \in {"Vashi processy", "Za vami poka ne zakrepleny processy."}
HasRegistrationPrompt(r) ==
  r.text[Len(r.text)] = "Snachala otpravte vashe imya dlya registracii."

\* The names of the processes a process-list reply shows.
ListedNames(r) ==
  IF r.text[1] = "Vashi processy"
    THEN { r.text[i][1] : i \in 5 .. Len(r.text) }
    ELSE {}

\* The names of the processes of the seed owned by name n.
OwnedNames(n) ==
  { DEFAULT_PROCESSES[i].name :
      i \in { j \in DOMAIN DEFAULT_PROCESSES :
                DEFAULT_PROCESSES[j].owner_name = n } }

\* C11: for a sender without a user row, /start keeps them unregistered and
\* is answered with the onboarding prompt; any other command keeps them
\* unregistered and is answered with the help text that ends in the
\* registration prompt, never with a process list; a plain text T registers
\* them under name T.  For a sender registered under T, /my lists exactly
\* the processes whose owner name is T.
C11_UnregisteredTransitions ==
  [][\A tg \in Chatter, text \in ChatTexts :
       HandledNow(tg, text) =>
         /\ (Unregistered(tg) /\ startswith(text, "/start")) =>
              Unregistered(tg)' /\ IsOnboarding(reply') /\ reply'.chat_id = tg
         /\ (Unregistered(tg) /\ IsCommand(text) /\ text[1] # "/start") =>
              /\ Unregistered(tg)'
              /\ IsHelp(reply') /\ HasRegistrationPrompt(reply')
              /\ ~IsProcessList(reply') /\ reply'.chat_id = tg
         /\ (Unregistered(tg) /\ text # << >> /\ ~IsCommand(text)) =>
              RegisteredAs(tg, text[1])'
         /\ \A n \in PlainTexts :
              (RegisteredAs(tg, n) /\ text = <<"/my">>) =>
                /\ IsProcessList(reply') /\ reply'.chat_id = tg
                /\ ListedNames(reply') = OwnedNames(n)]_vars

\* C11 witness: the person who sent "Ivan" while unregistered has sent /my
\* and the reply lists the two processes of Ivan.
C11_Witness ==
  /\ event # << >>
  /\ event[1].tg = 501 /\ event[1].text = <<"/my">>
  /\ RegisteredAs(501, "Ivan")
  /\ [telegram_id |-> 501, had_row |-> FALSE] \in register_calls
  /\ IsProcessList(reply)
  /\ Cardinality(ListedNames(reply)) = 2
  /\ ListedNames(reply) = OwnedNames("Ivan")

\* C12 as stated: for a registered sender, every text that is neither a /my
\* nor a /check command, /start and plain text included, is answered with
\* the help text, and no table changes.
C12_AsStated ==
  [][\A tg \in Chatter, text \in ChatTexts :
       (/\ HandledNow(tg, text)
        /\ ~Unregistered(tg)
        /\ ~startswith(text, "/my") /\ ~startswith(text, "/check")) =>
         /\ IsHelp(reply') /\ reply'.chat_id = tg
         /\ users' = users /\ reminder_logs' = reminder_logs]_vars

\* C12 as amended: for a registered sender, every text that starts with
\* none of /start, /my and /check is answered with the help text, /start
\* is answered with the onboarding prompt, and in both cases no table
\* changes.
C12_RegisteredFallsThroughToHelp ==
  [][\A tg \in Chatter, text \in ChatTexts :
       (/\ HandledNow(tg, text)
        /\ ~Unregistered(tg)
        /\ ~startswith(text, "/my") /\ ~startswith(text, "/check")) =>
         /\ IF startswith(text, "/start")
              THEN IsOnboarding(reply')
              ELSE IsHelp(reply') /\ ~HasRegistrationPrompt(reply')
         /\ reply'.chat_id = tg
         /\ users' = users /\ reminder_logs' = reminder_logs]_vars

\* C12 witness: a registered person has sent /start and was answered with
\* the onboarding prompt.
C12_Witness ==
  /\ event # << >>
  /\ event[1].tg = 501 /\ event[1].text = <<"/start">>
  /\ RegisteredAs(501, "Ivan")
  /\ IsOnboarding(reply) /\ reply.chat_id = 501

\* C13: a /check of a registered sender leaves the reminder log, the
\* messages of the reminder loop and the users table as they are, and its
\* answer depends on the instant asked about and the owner only: the latest
\* answer equals the answer the first /check got if both are for the same
\* instant and owner, whatever the log and the clock were at the two calls.
C13_CheckIsPureSimulation ==
  /\ [][\A tg \in Chatter, text \in ChatTexts :
         (HandledNow(tg, text) /\ ~Unregistered(tg) /\ startswith(text, "/check"))
           => /\ reminder_logs' = reminder_logs
              /\ sent' = sent
              /\ users' = users]_vars
  /\ [](\A c \in first_check, d \in last_check :
          (c.owner = d.owner /\ c.instant = d.instant) => d.text = c.text)

\* C13 witness: Ivan asked about 10:30 before any tick, and asked again
\* after a tick had read the clock and written to the log; the answers are
\* the same.
C13_Witness ==
  \E c \in first_check, d \in last_check :
    /\ c.owner = "Ivan" /\ d.owner = "Ivan"
    /\ c.instant = At(0, 10, 30) /\ d.instant = At(0, 10, 30)
    /\ c.log = {} /\ d.log # {}
    /\ c.clock # d.clock
    /\ reply.text = d.text /\ d.text = c.text

\* C14: the reminder log never holds two rows with the same (user, process,
\* date, slot), and a row once in the log is in the log, unchanged, after
\* every later step, with two reminder loops on the store, kills and
\* registrations.
C14_LogAppendOnlyUnique ==
  /\ [](\A r1, r2 \in reminder_logs : r1.key = r2.key => r1 = r2)
  /\ [][\A r \in reminder_logs : r \in reminder_logs']_vars

\* C14 witness: loop e1 created the slot-1 row of a key; loop e2, in a tick
\* of its own, called record_reminder_sent for the same key, created
\* nothing and stands at slot 2; the log holds its rows once.
C14_Witness ==
  /\ loop["e2"].pc = "record" /\ loop["e2"].idx = 2
  /\ LET k == [key_at("e2") EXCEPT !.reminder_idx = 1]
     IN  /\ k \in created["e1"]
         /\ k \notin created["e2"]
         /\ k \in called
         /\ Cardinality({ r \in reminder_logs : r.key = k }) = 1

\* C15 as stated: for a negative duration humanize_delta reports "overdue
\* by N minutes" with N = floor(|seconds| / 60), the length of the delay
\* with its part below a minute cut off.
C15_AsStated ==
  (humanized # << >> /\ delta < 0) =>
    humanized = <<"prosrocheno na", (0 - delta) \div MINUTE, "min">>

\* C16: for a duration of s >= 0 seconds and m = floor(s / 60),
\* humanize_delta gives "in m minutes" if m < 60 and "in H hours M minutes"
\* with H = floor(m / 60), M = m mod 60 if m >= 60; 60 minutes is 1 hour 0
\* minutes.
C16_HumanizeNonNegative ==
  (humanized # << >> /\ delta >= 0) =>
    LET m == delta \div 60
    IN  IF m < 60
          THEN humanized = <<"cherez", m, "min">>
          ELSE humanized = <<"cherez", m \div 60, "ch", m % 60, "min">>

\* C16 witness: 3600 seconds rendered as 1 hour 0 minutes.
C16_Witness ==
  /\ delta = 3600
  /\ humanized = <<"cherez", 1, "ch", 0, "min">>

\* The update_ids handle_message was called for.
HandledIds == { handled[i].update_id : i \in DOMAIN handled }

\* Update number i has arrived and carries a message.
HasMessage(i) ==
  IF i \in DOMAIN updates THEN updates[i].message # << >> ELSE FALSE

\* handle_message was called for update number i.
WasHandled(i) ==
  IF i \in DOMAIN updates THEN updates[i].update_id \in HandledIds ELSE FALSE

\* C17: handle_message is called for the updates in increasing update_id
\* order, for none twice; every update with a message that the cursor has
\* passed has had its one call, also when an earlier call raised; and every
\* update with a message gets its call in the end.
C17_EachUpdateHandledOnce ==
  /\ [](\A i, j \in DOMAIN handled :
          i < j => handled[i].update_id < handled[j].update_id)
  /\ [](\A i \in DOMAIN updates :
          (updates[i].message # << >> /\ offset # << >>
             /\ updates[i].update_id < offset[1])
            => updates[i].update_id \in HandledIds)
  /\ [](\A id \in HandledIds :
          /\ offset # << >> /\ id < offset[1]
          /\ \E i \in DOMAIN updates :
               updates[i].update_id = id /\ updates[i].message # << >>)
  /\ \A i \in 1 .. MaxUpdates :
       [](HasMessage(i) => <>WasHandled(i))

\* C17 witness: the call for update 1 raised with another update of its
\* batch behind it; that update was fetched again and handled, and so was
\* an update of a later batch.
C17_Witness ==
  /\ Len(handled) = 3
  /\ handled[1].update_id = 1 /\ handled[1].raised /\ handled[1].left = 1
  /\ handled[2].update_id = 2 /\ ~handled[2].raised
  /\ handled[3].update_id = 3 /\ ~handled[3].raised
  /\ poll = "fetch" /\ offset = <<4>>

\* The status line of process number i in a build_check_response text is
\* that of the overdue branch.
ReportsPassed(text, i) == text[2 + i][3][1] = "dedlajn proshel, prosrocheno na"

\* C18 as stated: for every process of the owner, the answer to /check for
\* instant t shows the overdue branch exactly when a tick at time t skips
\* the process as past its deadline, at t equal to the deadline too.
C18_AsStated ==
  \A d \in last_check :
    LET processes == get_processes_for_owner(d.owner)
    IN  \A i \in DOMAIN processes :
          ReportsPassed(d.text, i) <=> deadline_passed(d.instant, processes[i])

\* C19: whenever the log holds the slot-2 row of a (user, process, date),
\* it holds the slot-1 row of the same (user, process, date).
C19_Slot2ImpliesSlot1 ==
  \A k \in log_keys :
    k.reminder_idx = 2 => [k EXCEPT !.reminder_idx = 1] \in log_keys

\* C19 witness: the 09:30 tick, at which both slots of the 10:30 process
\* are due, has created the slot-1 row and then the slot-2 row.
C19_Witness ==
  /\ now["e1"] = At(0, 9, 30)
  /\ \E k \in created["e1"] :
       /\ k.process_id = 3 /\ k.reminder_idx = 2
       /\ [k EXCEPT !.reminder_idx = 1] \in created["e1"]
       /\ \E r1, r2 \in reminder_logs :
            /\ r1.key = [k EXCEPT !.reminder_idx = 1] /\ r2.key = k
            /\ r1.id < r2.id

\* C20: a row of users, once written, keeps its telegram id, name and
\* handle through every later chat message and every step of the reminder
\* loop and is never removed, and register_user is only ever called for a
\* sender who has no row.
C20_RegisteredIsAbsorbing ==
  /\ [][\A i \in DOMAIN users :
         i \in DOMAIN users' /\ users'[i] = users[i]]_vars
  /\ [](\A c \in register_calls : ~c.had_row)

\* C20 witness: the person registered as Ivan has sent the plain text
\* "Kirill" and was answered with the help text; the row still says Ivan.
C20_Witness ==
  /\ event # << >>
  /\ event[1].tg = 501 /\ event[1].text = <<"Kirill">>
  /\ RegisteredAs(501, "Ivan")
  /\ register_calls = {[telegram_id |-> 501, had_row |-> FALSE]}
  /\ IsHelp(reply) /\ ~HasRegistrationPrompt(reply)

====
